---- MODULE Spec2Model ----
(***************************************************************************)
(* SecureVault backend: the express handlers of server/index.js and the    *)
(* metadata file of server/metadataStore.js, as a state machine.           *)
(*                                                                         *)
(* A handler runs synchronously between two awaits; every await on the     *)
(* value store and every file-system call of saveMetadata is one step, so  *)
(* that a failure or a process crash can fall between any two of them.     *)
(***************************************************************************)
EXTENDS Integers, Sequences, FiniteSets, TLC

VARIABLES
    keychain,           \* the OS keychain (keytar), service SecureVault: account -> password
    keychainAvailable,  \* index.js: let keychainAvailable
    fallbackStorage,    \* index.js: let fallbackStorage = {}
    secretsMetadata,    \* index.js: let secretsMetadata = loadMetadata()
    file,               \* content at the metadata path (metadata.json)
    tmp,                \* the temporary file written by the request being served
    mode,               \* permission bits of the file at the metadata path
    req,                \* per request handler: its position and its local variables
    nreq,               \* requests received so far
    restarts,           \* process restarts so far
    probeOutcome        \* how the keychain probe of the last process start ended

vars == <<keychain, keychainAvailable, probeOutcome, fallbackStorage, secretsMetadata, file,
          tmp, req, nreq, restarts, mode>>

\* ------------------------------------------------------------------ bounds
MaxRequests == 3
MaxRestarts == 1
\* direct calls of saveMetadata / loadMetadata, and the length of the
\* sequences given to saveMetadata
MaxCalls == 4
MaxLen == 2

\* ------------------------------------------------------------- JS values
Str(s) == [t |-> "string", s |-> s, n |-> 0]
Num(n) == [t |-> "number", s |-> "", n |-> n]
Undef == [t |-> "undefined", s |-> "", n |-> 0]
Null == [t |-> "null", s |-> "", n |-> 0]

\* !x
Falsy(x) ==
    \/ x.t \in {"undefined", "null"}
    \/ x.t = "string" /\ x.s = ""
    \/ x.t = "number" /\ x.n = 0

\* String.prototype.trim on the strings of the model
Trim(s) ==
    CASE s = " T1 " -> "T1"
      [] s = " T2 " -> "T2"
      [] s = "  " -> ""
      [] OTHER -> s

ProbeAccount == "__test__"
Ids == {"a", "b"}
Accounts == Ids \cup {ProbeAccount}
VALID_CATEGORIES == {"password", "api-key", "token", "certificate", "note", "other"}
Fields == {"id", "title", "category", "notes", "createdAt", "updatedAt"}

\* ------------------------------------------------------- metadataStore.js
AbsentFile == [kind |-> "absent", items |-> <<>>]
GarbageFile == [kind |-> "garbage", items |-> <<>>]
ObjectFile == [kind |-> "object", items |-> <<>>]
PartialFile == [kind |-> "partial", items |-> <<>>]

\* permission bits: of a file that does not exist, of a file created with
\* { mode: 0o600 } or chmod'ed to it, and of a file that group and others read
NoMode == "none"
OwnerOnly == "0o600"
WiderMode == "0o644"

\* JSON.stringify of one object: a property whose value is undefined is left out
ToJson(e) == [k \in {f \in DOMAIN e : e[f].t # "undefined"} |-> e[k]]

\* JSON.stringify(metadata, null, 2)
Stringify(metadata) ==
    [kind |-> "array", items |-> [i \in 1..Len(metadata) |-> ToJson(metadata[i])]]

\* reading a property of a parsed object: undefined when the key is missing
FromJson(o) == [f \in Fields \cup DOMAIN o |-> IF f \in DOMAIN o THEN o[f] ELSE Undef]

\* loadMetadata: the parsed array, or [] when the file is absent, does not
\* parse, or parses to something that is not an array
loadMetadata(f) ==
    IF f.kind = "array"
    THEN [i \in 1..Len(f.items) |-> FromJson(f.items[i])]
    ELSE <<>>

\* ------------------------------------------------ index.js: storage layer
\* keytar.getPassword resolves to null when the account has no entry.
\* fallbackStorage[account] || null
FallbackGet(fs, account) == IF Falsy(fs[account]) THEN Null ELSE fs[account]

\* what storage.getPassword(SERVICE_NAME, account) resolves to
StoreValue(account) ==
    IF keychainAvailable THEN keychain[account] ELSE FallbackGet(fallbackStorage, account)

\* mutant: deleting one account empties the whole table
FallbackApplyDeleteClearsAll(fs, call) ==
    CASE call.kind = "set" -> [fs EXCEPT ![call.account] = call.password]
      [] call.kind = "delete" -> [a \in DOMAIN fs |-> Undef]
      [] OTHER -> fs

\* the fallback branch of storage.setPassword / getPassword / deletePassword
FallbackApply(fs, call) ==
    CASE call.kind = "set" -> [fs EXCEPT ![call.account] = call.password]
      [] call.kind = "delete" -> [fs EXCEPT ![call.account] = Undef]
      [] OTHER -> fs

\* the effect of a keytar call that resolves
KeytarApply(kc, call) ==
    CASE call.kind = "set" -> [kc EXCEPT ![call.account] = call.password]
      [] call.kind = "delete" -> [kc EXCEPT ![call.account] = Null]
      [] OTHER -> kc

\* keytar.setPassword rejects a password that is not a string
KeytarAccepts(call) == call.kind = "set" => call.password.t = "string"

NoCall == [kind |-> "none", account |-> "a", password |-> Undef]
SetCall(account, password) == [kind |-> "set", account |-> account, password |-> password]
GetCall(account) == [kind |-> "get", account |-> account, password |-> Undef]
DeleteCall(account) == [kind |-> "delete", account |-> account, password |-> Undef]

\* ------------------------------------------------------ request handlers
Handlers == {1, 2}
\* requests are served one at a time by handler 1
Serial == {1}

NoEntry == [f \in Fields |-> Undef]
NoBody == [title |-> Undef, value |-> Undef, category |-> Undef, notes |-> Undef,
           createdAt |-> Undef, updatedAt |-> Undef]

Snapshot ==
    [meta |-> secretsMetadata, file |-> file, keychain |-> keychain,
     fallback |-> fallbackStorage]

IdleReq ==
    [pc |-> "idle", op |-> "none", id |-> "a", body |-> NoBody,
     metaIndex |-> 0, metadata |-> NoEntry, existingMeta |-> NoEntry,
     deletedMetadata |-> NoEntry, secretValue |-> Undef, previousValue |-> Undef,
     deletedValue |-> Undef, data |-> AbsentFile,
     call |-> NoCall, next |-> "none", inRollback |-> FALSE,
     status |-> 0,
     \* history of the request, read by the properties only
     pre |-> [meta |-> <<>>, file |-> AbsentFile,
              keychain |-> [a \in Accounts |-> Null],
              fallback |-> [a \in Ids |-> Undef]],
     prevDeleted |-> "none",
     old |-> AbsentFile, renamed |-> FALSE, saveAttempted |-> FALSE,
     \* the mode of the target when saveMetadata was entered, and the mode of
     \* the temporary file the call created
     oldMode |-> NoMode, tmpMode |-> NoMode,
     \* secretsMetadata just before the request's push, replace or splice
     memBefore |-> <<>>,
     saveFailed |-> "no", storeFailed |-> FALSE, rollbackFailed |-> FALSE,
     \* a direct caller of metadataStore.js: the argument of its saveMetadata
     \* call, the result of its loadMetadata call, and the argument of the
     \* last saveMetadata call that returned (known until a later call throws
     \* after its rename)
     entries |-> <<>>, loaded |-> <<>>, lastSaved |-> <<>>, savedKnown |-> FALSE]

\* res.status(status): the handler is over
Done(r, status) == [r EXCEPT !.pc = "done", !.status = status, !.call = NoCall]

\* secretsMetadata.findIndex(s => s.id === id); 0 stands for JS's -1
FindIndex(metadata, id) ==
    IF \E i \in 1..Len(metadata) : metadata[i].id = Str(id)
    THEN CHOOSE i \in 1..Len(metadata) :
            /\ metadata[i].id = Str(id)
            /\ \A j \in 1..(i - 1) : metadata[j].id # Str(id)
    ELSE 0

\* await storage.<call>: in fallback mode the table is read or written at once
\* and the handler goes on at `next`; with the keychain the handler waits for
\* keytar (KeytarReturn).
Deliver(r, call, result) ==
    IF call.kind # "get" THEN r
    ELSE IF r.op = "update" THEN [r EXCEPT !.secretValue = result]
    ELSE [r EXCEPT !.deletedValue = result]

AwaitStorage(h, r, call, next) ==
    IF keychainAvailable
    THEN /\ req' = [req EXCEPT ![h] = [r EXCEPT !.pc = "await", !.call = call, !.next = next]]
         /\ UNCHANGED <<keychain, fallbackStorage>>
    ELSE /\ fallbackStorage' = FallbackApply(fallbackStorage, call)
         /\ req' = [req EXCEPT ![h] =
                IF next = "end500"
                THEN Done(r, 500)
                ELSE [Deliver(r, call, FallbackGet(fallbackStorage, call.account))
                        EXCEPT !.pc = next]]
         /\ UNCHANGED keychain

\* ---------------------------------------------------- request bodies
Body(title, value, category, notes, createdAt, updatedAt) ==
    [title |-> title, value |-> value, category |-> category, notes |-> notes,
     createdAt |-> createdAt, updatedAt |-> updatedAt]

\* bodies POSTed to /api/secrets: one that passes validation (its title is
\* trimmed, its notes are omitted), and one for each validation rule
CreateBodies ==
    { Body(Str(" T1 "), Str("v1"), Str("password"), Undef, Num(1), Num(1)),
      Body(Undef, Str("v1"), Str("password"), Undef, Num(1), Num(1)),
      Body(Str("  "), Str("v1"), Str("password"), Undef, Num(1), Num(1)),
      Body(Num(7), Str("v1"), Str("password"), Undef, Num(1), Num(1)),
      Body(Str(" T1 "), Str("v1"), Str("bogus"), Undef, Num(1), Num(1)),
      Body(Str(" T1 "), Str(""), Str("password"), Undef, Num(1), Num(1)),
      Body(Str(" T1 "), Num(7), Str("password"), Undef, Num(1), Num(1)),
      Body(Str(" T1 "), Str("v1"), Str("password"), Num(7), Num(1), Num(1)) }

\* bodies PUT to /api/secrets/:id: a partial update without a value, an update
\* with a new value (and an updatedAt older than the one of the create body),
\* and one for each validation rule
UpdateBodies ==
    { Body(Str(" T2 "), Undef, Undef, Undef, Undef, Undef),
      Body(Undef, Str("v2"), Str("note"), Str("n"), Num(2), Num(0)),
      Body(Str("  "), Undef, Undef, Undef, Undef, Undef),
      Body(Undef, Undef, Str("bogus"), Undef, Undef, Undef),
      Body(Undef, Undef, Undef, Num(7), Undef, Undef),
      Body(Undef, Str(""), Undef, Undef, Undef, Undef),
      Body(Undef, Null, Undef, Undef, Undef, Undef),
      Body(Undef, Num(7), Undef, Undef, Undef, Undef) }

\* -------------------------------------------------- POST /api/secrets
\* the 400 checks of the create handler
CreateInvalid(b) ==
    \/ Falsy(b.title) \/ Falsy(b.value) \/ Falsy(b.category)
    \/ b.title.t # "string" \/ Trim(b.title.s) = ""
    \/ ~(b.category.t = "string" /\ b.category.s \in VALID_CATEGORIES)
    \/ b.value.t # "string" \/ b.value.s = ""
    \/ (b.notes.t # "undefined" /\ b.notes.t # "string")

\* mutant: the metadata entry is built from the whole body
NewMetadataKeepsValue(id, b) ==
    [id |-> Str(id), title |-> Str(Trim(b.title.s)), category |-> b.category,
     notes |-> b.notes, createdAt |-> b.createdAt, updatedAt |-> b.updatedAt,
     value |-> b.value]

\* const metadata = { id, title: title.trim(), category, notes, createdAt, updatedAt }
NewMetadata(id, b) ==
    [id |-> Str(id), title |-> Str(Trim(b.title.s)), category |-> b.category,
     notes |-> b.notes, createdAt |-> b.createdAt, updatedAt |-> b.updatedAt]

\* mutant: the duplicate check is left out
ExistingSecretUnchecked(metadata, id) == FALSE

\* mutant: only the first entry is compared
ExistingSecretFirstOnly(metadata, id) == Len(metadata) > 0 /\ metadata[1].id = Str(id)

\* secretsMetadata.find(s => s.id === id)
ExistingSecret(metadata, id) == FindIndex(metadata, id) # 0

Receive(h, op, id, b) ==
    [IdleReq EXCEPT !.op = op, !.id = id, !.body = b, !.pre = Snapshot,
                    !.prevDeleted = IF req[h].pc = "done" /\ req[h].op = "delete"
                                       /\ req[h].status = 204
                                    THEN req[h].id ELSE "none"]

\* from the start of the handler to its first await
BeginCreate(h, id, b) ==
    /\ req[h].pc \in {"idle", "done"}
    /\ nreq < MaxRequests
    /\ nreq' = nreq + 1
    /\ LET r == Receive(h, "create", id, b) IN
       IF CreateInvalid(b)
       THEN /\ req' = [req EXCEPT ![h] = Done(r, 400)]
            /\ UNCHANGED <<keychain, fallbackStorage>>
       ELSE IF ExistingSecret(secretsMetadata, id)
       THEN /\ req' = [req EXCEPT ![h] = Done(r, 409)]
            /\ UNCHANGED <<keychain, fallbackStorage>>
       ELSE AwaitStorage(h, r, SetCall(id, b.value), "c_push")
    /\ tmp' = AbsentFile
    /\ UNCHANGED <<keychainAvailable, probeOutcome, secretsMetadata, file, restarts, mode>>

\* saveMetadata is entered: data = JSON.stringify(metadata, null, 2)
EnterSave(r, metadata) ==
    [r EXCEPT !.pc = "save_write", !.data = Stringify(metadata), !.old = file,
              !.oldMode = mode, !.memBefore = secretsMetadata, !.saveAttempted = TRUE]

\* mutant: saveMetadata is called before the push
CreatePushSavesStale(h) ==
    /\ req[h].pc = "c_push"
    /\ LET metadata == NewMetadata(req[h].id, req[h].body) IN
          /\ secretsMetadata' = Append(secretsMetadata, metadata)
          /\ req' = [req EXCEPT ![h] =
                EnterSave([req[h] EXCEPT !.metadata = metadata], secretsMetadata)]
    /\ UNCHANGED <<keychain, keychainAvailable, probeOutcome, fallbackStorage, file, tmp,
                   nreq, restarts, mode>>

\* secretsMetadata.push(metadata); saveMetadata(secretsMetadata) is called
\* mutant: the new entry is put in front (unshift)
CreatePushPrepends(h) ==
    /\ req[h].pc = "c_push"
    /\ LET metadata == NewMetadata(req[h].id, req[h].body) IN
          /\ secretsMetadata' = <<metadata>> \o secretsMetadata
          /\ req' = [req EXCEPT ![h] =
                EnterSave([req[h] EXCEPT !.metadata = metadata], secretsMetadata')]
    /\ UNCHANGED <<keychain, keychainAvailable, probeOutcome, fallbackStorage, file, tmp,
                   nreq, restarts, mode>>

CreatePush(h) ==
    /\ req[h].pc = "c_push"
    /\ LET metadata == NewMetadata(req[h].id, req[h].body) IN
          /\ secretsMetadata' = Append(secretsMetadata, metadata)
          /\ req' = [req EXCEPT ![h] =
                EnterSave([req[h] EXCEPT !.metadata = metadata], secretsMetadata')]
    /\ UNCHANGED <<keychain, keychainAvailable, probeOutcome, fallbackStorage, file, tmp,
                   nreq, restarts, mode>>

\* mutant: the rollback does not delete the value it stored
CreateRollbackKeepsValue(h) ==
    /\ req[h].pc = "rollback"
    /\ req[h].op = "create"
    /\ secretsMetadata' = SubSeq(secretsMetadata, 1, Len(secretsMetadata) - 1)
    /\ req' = [req EXCEPT ![h] = Done([req[h] EXCEPT !.inRollback = TRUE], 500)]
    /\ UNCHANGED <<keychain, keychainAvailable, probeOutcome, fallbackStorage, file, tmp, nreq, restarts, mode>>

\* catch (persistError): secretsMetadata.pop(); await storage.deletePassword
CreateRollback(h) ==
    /\ req[h].pc = "rollback"
    /\ req[h].op = "create"
    /\ secretsMetadata' = SubSeq(secretsMetadata, 1, Len(secretsMetadata) - 1)
    /\ AwaitStorage(h, [req[h] EXCEPT !.inRollback = TRUE],
                    DeleteCall(req[h].id), "end500")
    /\ UNCHANGED <<keychainAvailable, probeOutcome, file, tmp, nreq, restarts, mode>>

\* ------------------------------------------------ PUT /api/secrets/:id
\* the 400 checks made before the stored value is read
\* mutant: the category of an update is not checked against VALID_CATEGORIES
UpdateInvalidIgnoresCategory(b) ==
    \/ (b.title.t # "undefined" /\ (b.title.t # "string" \/ Trim(b.title.s) = ""))
    \/ (b.notes.t # "undefined" /\ b.notes.t # "string")

UpdateInvalid(b) ==
    \/ (b.title.t # "undefined" /\ (b.title.t # "string" \/ Trim(b.title.s) = ""))
    \/ (b.category.t # "undefined"
          /\ ~(b.category.t = "string" /\ b.category.s \in VALID_CATEGORIES))
    \/ (b.notes.t # "undefined" /\ b.notes.t # "string")

\* the 400 checks on a supplied value, made after the stored value is read
\* mutant: only the type of the value is checked
UpdateValueInvalidAllowsEmpty(b) == b.value.t # "string"

UpdateValueInvalid(b) ==
    \/ b.value.t = "null"
    \/ (b.value.t = "string" /\ b.value.s = "")
    \/ b.value.t # "string"

\* mutant: the four fields are taken from the body even when it omits them
UpdatedMetaOverwrites(existingMeta, b) ==
    [existingMeta EXCEPT
        !.title = IF b.title.t = "string" THEN Str(Trim(b.title.s)) ELSE b.title,
        !.category = b.category,
        !.notes = b.notes,
        !.updatedAt = b.updatedAt]

\* secretsMetadata[metaIndex] = entry, 1-based: an index just past the end
\* makes the array one longer (a handler that found its index has seen at
\* most one entry removed since, see ConcStep)
AssignAt(s, i, entry) ==
    IF i <= Len(s) THEN [s EXCEPT ![i] = entry] ELSE Append(s, entry)

\* const updatedMeta = { ...existingMeta, title: ..., category: ..., notes: ..., updatedAt: ... }
UpdatedMeta(existingMeta, b) ==
    [existingMeta EXCEPT
        !.title = IF b.title.t # "undefined" THEN Str(Trim(b.title.s)) ELSE @,
        !.category = IF b.category.t # "undefined" THEN b.category ELSE @,
        !.notes = IF b.notes.t # "undefined" THEN b.notes ELSE @,
        !.updatedAt = IF b.updatedAt.t # "undefined" THEN b.updatedAt ELSE @]

BeginUpdate(h, id, b) ==
    /\ req[h].pc \in {"idle", "done"}
    /\ nreq < MaxRequests
    /\ nreq' = nreq + 1
    /\ LET metaIndex == FindIndex(secretsMetadata, id)
           r == [Receive(h, "update", id, b) EXCEPT !.metaIndex = metaIndex]
       IN
       IF metaIndex = 0
       THEN /\ req' = [req EXCEPT ![h] = Done(r, 404)]
            /\ UNCHANGED <<keychain, fallbackStorage>>
       ELSE IF UpdateInvalid(b)
       THEN /\ req' = [req EXCEPT ![h] = Done(r, 400)]
            /\ UNCHANGED <<keychain, fallbackStorage>>
       ELSE AwaitStorage(h, [r EXCEPT !.existingMeta = secretsMetadata[metaIndex]],
                         GetCall(id), "u_value")
    /\ tmp' = AbsentFile
    /\ UNCHANGED <<keychainAvailable, probeOutcome, secretsMetadata, file, restarts, mode>>

\* mutant: the new value is written to the table before it is validated
UpdateValueStoresFirst(h) ==
    /\ req[h].pc = "u_value"
    /\ LET r == req[h] IN
       IF r.body.value.t = "undefined"
       THEN /\ req' = [req EXCEPT ![h] = [r EXCEPT !.pc = "u_mutate"]]
            /\ UNCHANGED <<keychain, fallbackStorage>>
       ELSE IF UpdateValueInvalid(r.body)
       THEN /\ req' = [req EXCEPT ![h] = Done(r, 400)]
            /\ fallbackStorage' = IF keychainAvailable THEN fallbackStorage
                                  ELSE FallbackApply(fallbackStorage, SetCall(r.id, r.body.value))
            /\ UNCHANGED keychain
       ELSE AwaitStorage(h, [r EXCEPT !.previousValue = r.secretValue],
                         SetCall(r.id, r.body.value), "u_mutate")
    /\ UNCHANGED <<keychainAvailable, probeOutcome, secretsMetadata, file, tmp, nreq, restarts, mode>>

\* if (value !== undefined) { ...; previousValue = secretValue; await storage.setPassword }
UpdateValue(h) ==
    /\ req[h].pc = "u_value"
    /\ LET r == req[h] IN
       IF r.body.value.t = "undefined"
       THEN /\ req' = [req EXCEPT ![h] = [r EXCEPT !.pc = "u_mutate"]]
            /\ UNCHANGED <<keychain, fallbackStorage>>
       ELSE IF UpdateValueInvalid(r.body)
       THEN /\ req' = [req EXCEPT ![h] = Done(r, 400)]
            /\ UNCHANGED <<keychain, fallbackStorage>>
       ELSE AwaitStorage(h, [r EXCEPT !.previousValue = r.secretValue],
                         SetCall(r.id, r.body.value), "u_mutate")
    /\ UNCHANGED <<keychainAvailable, probeOutcome, secretsMetadata, file, tmp, nreq, restarts, mode>>

\* secretsMetadata[metaIndex] = updatedMeta; saveMetadata(secretsMetadata) is called
UpdateMutate(h) ==
    /\ req[h].pc = "u_mutate"
    /\ LET r == req[h]
           updatedMeta == UpdatedMeta(r.existingMeta, r.body)
       IN
          /\ secretsMetadata' = AssignAt(secretsMetadata, r.metaIndex, updatedMeta)
          /\ req' = [req EXCEPT ![h] =
                EnterSave([r EXCEPT !.metadata = updatedMeta,
                                    !.secretValue = IF r.body.value.t # "undefined"
                                                    THEN r.body.value ELSE @],
                          secretsMetadata')]
    /\ UNCHANGED <<keychain, keychainAvailable, probeOutcome, fallbackStorage, file, tmp,
                   nreq, restarts, mode>>

\* mutant: the revert writes the value read at the start back to the store
\* even when the request carried no value
UpdateRollbackAlwaysRestores(h) ==
    /\ req[h].pc = "rollback"
    /\ req[h].op = "update"
    /\ LET r == [req[h] EXCEPT !.inRollback = TRUE] IN
          /\ secretsMetadata' = AssignAt(secretsMetadata, r.metaIndex, r.existingMeta)
          /\ AwaitStorage(h, r, SetCall(r.id, IF r.previousValue.t # "undefined"
                                              THEN r.previousValue ELSE r.secretValue),
                          "end500")
    /\ UNCHANGED <<keychainAvailable, probeOutcome, file, tmp, nreq, restarts, mode>>

\* catch (persistError): secretsMetadata[metaIndex] = existingMeta;
\* if (previousValue !== undefined) await storage.setPassword(..., previousValue)
UpdateRollback(h) ==
    /\ req[h].pc = "rollback"
    /\ req[h].op = "update"
    /\ LET r == [req[h] EXCEPT !.inRollback = TRUE] IN
          /\ secretsMetadata' = AssignAt(secretsMetadata, r.metaIndex, r.existingMeta)
          /\ IF r.previousValue.t # "undefined"
             THEN AwaitStorage(h, r, SetCall(r.id, r.previousValue), "end500")
             ELSE /\ req' = [req EXCEPT ![h] = Done(r, 500)]
                  /\ UNCHANGED <<keychain, fallbackStorage>>
    /\ UNCHANGED <<keychainAvailable, probeOutcome, file, tmp, nreq, restarts, mode>>

\* --------------------------------------------- DELETE /api/secrets/:id
\* mutant: the restored entry is pushed at the end
InsertAtEnd(s, i, e) == Append(s, e)

\* mutant: the last entry is removed, whatever the index
RemoveAtLast(s, i) == SubSeq(s, 1, Len(s) - 1)

\* Array.prototype.splice(index, 1) and splice(index, 0, item), 1-based
\* (an index past the end removes nothing, and inserts at the end)
RemoveAt(s, i) ==
    IF i > Len(s) THEN s
    ELSE [j \in 1..(Len(s) - 1) |-> IF j < i THEN s[j] ELSE s[j + 1]]
InsertAt(s, i, e) ==
    LET k == IF i > Len(s) + 1 THEN Len(s) + 1 ELSE i IN
    [j \in 1..(Len(s) + 1) |-> IF j < k THEN s[j] ELSE IF j = k THEN e ELSE s[j - 1]]

\* mutant: deleting an unknown id is answered as a success
BeginDeleteAnswersSuccess(h, id) ==
    /\ req[h].pc \in {"idle", "done"}
    /\ nreq < MaxRequests
    /\ nreq' = nreq + 1
    /\ LET metaIndex == FindIndex(secretsMetadata, id)
           r == [Receive(h, "delete", id, NoBody) EXCEPT !.metaIndex = metaIndex]
       IN
       IF metaIndex = 0
       THEN /\ req' = [req EXCEPT ![h] = Done(r, 204)]
            /\ UNCHANGED <<keychain, fallbackStorage>>
       ELSE AwaitStorage(h, [r EXCEPT !.deletedMetadata = secretsMetadata[metaIndex]],
                         GetCall(id), "d_delete")
    /\ tmp' = AbsentFile
    /\ UNCHANGED <<keychainAvailable, probeOutcome, secretsMetadata, file, restarts, mode>>

BeginDelete(h, id) ==
    /\ req[h].pc \in {"idle", "done"}
    /\ nreq < MaxRequests
    /\ nreq' = nreq + 1
    /\ LET metaIndex == FindIndex(secretsMetadata, id)
           r == [Receive(h, "delete", id, NoBody) EXCEPT !.metaIndex = metaIndex]
       IN
       IF metaIndex = 0
       THEN /\ req' = [req EXCEPT ![h] = Done(r, 404)]
            /\ UNCHANGED <<keychain, fallbackStorage>>
       ELSE AwaitStorage(h, [r EXCEPT !.deletedMetadata = secretsMetadata[metaIndex]],
                         GetCall(id), "d_delete")
    /\ tmp' = AbsentFile
    /\ UNCHANGED <<keychainAvailable, probeOutcome, secretsMetadata, file, restarts, mode>>

\* mutant: the handler goes on to the splice without deleting the value
DeleteValueSkipped(h) ==
    /\ req[h].pc = "d_delete"
    /\ req' = [req EXCEPT ![h].pc = "d_splice"]
    /\ UNCHANGED <<keychain, fallbackStorage>>
    /\ UNCHANGED <<keychainAvailable, probeOutcome, secretsMetadata, file, tmp, nreq, restarts, mode>>

\* await storage.deletePassword(SERVICE_NAME, id)
DeleteValue(h) ==
    /\ req[h].pc = "d_delete"
    /\ AwaitStorage(h, req[h], DeleteCall(req[h].id), "d_splice")
    /\ UNCHANGED <<keychainAvailable, probeOutcome, secretsMetadata, file, tmp, nreq, restarts, mode>>

\* secretsMetadata.splice(metaIndex, 1); saveMetadata(secretsMetadata) is called
DeleteSplice(h) ==
    /\ req[h].pc = "d_splice"
    /\ secretsMetadata' = RemoveAt(secretsMetadata, req[h].metaIndex)
    /\ req' = [req EXCEPT ![h] = EnterSave(req[h], secretsMetadata')]
    /\ UNCHANGED <<keychain, keychainAvailable, probeOutcome, fallbackStorage, file, tmp,
                   nreq, restarts, mode>>

\* mutant: the rollback restores the value but not the entry
DeleteRollbackForgetsEntry(h) ==
    /\ req[h].pc = "rollback"
    /\ req[h].op = "delete"
    /\ LET r == [req[h] EXCEPT !.inRollback = TRUE] IN
          /\ UNCHANGED secretsMetadata
          /\ IF r.deletedValue.t \notin {"null", "undefined"}
             THEN AwaitStorage(h, r, SetCall(r.id, r.deletedValue), "end500")
             ELSE /\ req' = [req EXCEPT ![h] = Done(r, 500)]
                  /\ UNCHANGED <<keychain, fallbackStorage>>
    /\ UNCHANGED <<keychainAvailable, probeOutcome, file, tmp, nreq, restarts, mode>>

\* catch (persistError): secretsMetadata.splice(metaIndex, 0, deletedMetadata);
\* if (deletedValue !== null && deletedValue !== undefined) await storage.setPassword
DeleteRollback(h) ==
    /\ req[h].pc = "rollback"
    /\ req[h].op = "delete"
    /\ LET r == [req[h] EXCEPT !.inRollback = TRUE] IN
          /\ secretsMetadata' = InsertAt(secretsMetadata, r.metaIndex, r.deletedMetadata)
          /\ IF r.deletedValue.t \notin {"null", "undefined"}
             THEN AwaitStorage(h, r, SetCall(r.id, r.deletedValue), "end500")
             ELSE /\ req' = [req EXCEPT ![h] = Done(r, 500)]
                  /\ UNCHANGED <<keychain, fallbackStorage>>
    /\ UNCHANGED <<keychainAvailable, probeOutcome, file, tmp, nreq, restarts, mode>>

\* --------------------------------------------------- keytar's answer
\* mutant: a rejected keytar call is swallowed and the handler goes on
KeytarReturnSwallowsError(h) ==
    /\ req[h].pc = "await"
    /\ LET r == req[h] IN
       \/ /\ KeytarAccepts(r.call)
          /\ keychain' = KeytarApply(keychain, r.call)
          /\ req' = [req EXCEPT ![h] =
                IF r.next = "end500"
                THEN Done(r, 500)
                ELSE [Deliver(r, r.call, keychain[r.call.account])
                        EXCEPT !.pc = r.next, !.call = NoCall]]
       \/ /\ UNCHANGED keychain
          /\ req' = [req EXCEPT ![h] =
                IF r.inRollback
                THEN Done([r EXCEPT !.rollbackFailed = TRUE], 500)
                ELSE [Deliver(r, r.call, Null)
                        EXCEPT !.pc = r.next, !.call = NoCall, !.storeFailed = TRUE]]
    /\ UNCHANGED <<keychainAvailable, probeOutcome, fallbackStorage, secretsMetadata, file, tmp,
                   nreq, restarts, mode>>

\* mutant: a rejected keytar call switches the store to the in-memory table
KeytarReturnFallsBack(h) ==
    /\ req[h].pc = "await"
    /\ LET r == req[h] IN
       \/ /\ KeytarAccepts(r.call)
          /\ keychain' = KeytarApply(keychain, r.call)
          /\ req' = [req EXCEPT ![h] =
                IF r.next = "end500"
                THEN Done(r, 500)
                ELSE [Deliver(r, r.call, keychain[r.call.account])
                        EXCEPT !.pc = r.next, !.call = NoCall]]
          /\ UNCHANGED <<keychainAvailable, probeOutcome>>
       \/ /\ UNCHANGED keychain
          /\ keychainAvailable' = FALSE
          /\ UNCHANGED probeOutcome
          /\ req' = [req EXCEPT ![h] =
                IF r.inRollback
                THEN Done([r EXCEPT !.rollbackFailed = TRUE], 500)
                ELSE Done([r EXCEPT !.storeFailed = TRUE], 500)]
    /\ UNCHANGED <<fallbackStorage, secretsMetadata, file, tmp, nreq, restarts, mode>>

\* the promise of the keytar call a handler awaits settles
KeytarReturn(h) ==
    /\ req[h].pc = "await"
    /\ LET r == req[h] IN
       \/ /\ KeytarAccepts(r.call)
          /\ keychain' = KeytarApply(keychain, r.call)
          /\ req' = [req EXCEPT ![h] =
                IF r.next = "end500"
                THEN Done(r, 500)
                ELSE [Deliver(r, r.call, keychain[r.call.account])
                        EXCEPT !.pc = r.next, !.call = NoCall]]
       \/ /\ UNCHANGED keychain
          /\ req' = [req EXCEPT ![h] =
                IF r.inRollback
                THEN Done([r EXCEPT !.rollbackFailed = TRUE], 500)
                ELSE Done([r EXCEPT !.storeFailed = TRUE], 500)]
    /\ UNCHANGED <<keychainAvailable, probeOutcome, fallbackStorage, secretsMetadata, file, tmp,
                   nreq, restarts, mode>>

\* ------------------------------------------ metadataStore.js: saveMetadata
SaveFailed(r, step) == [r EXCEPT !.pc = "rollback", !.saveFailed = step]

SuccessStatus(op) ==
    CASE op = "create" -> 201
      [] op = "update" -> 200
      [] OTHER -> 204

\* mutant: the data is written to the metadata path itself
SaveWriteInPlace(h) ==
    /\ req[h].pc = "save_write"
    /\ \/ /\ file' = req[h].data
          /\ tmp' = req[h].data
          /\ req' = [req EXCEPT ![h].pc = "save_rename"]
       \/ /\ req' = [req EXCEPT ![h] = SaveFailed(req[h], "write")]
          /\ UNCHANGED <<file, tmp>>
       \/ /\ req' = [req EXCEPT ![h] = SaveFailed(req[h], "write")]
          /\ file' = PartialFile
          /\ UNCHANGED tmp
    /\ UNCHANGED <<keychain, keychainAvailable, probeOutcome, fallbackStorage, secretsMetadata,
                   nreq, restarts, mode>>

\* mutant: the temporary file is created without the mode option
SaveWriteDefaultMode(h) ==
    /\ req[h].pc = "save_write"
    /\ \/ /\ tmp' = req[h].data
          /\ req' = [req EXCEPT ![h].pc = "save_rename", ![h].tmpMode = WiderMode]
       \/ /\ req' = [req EXCEPT ![h] = SaveFailed(req[h], "write")]
          /\ UNCHANGED tmp
       \/ /\ req' = [req EXCEPT ![h] = SaveFailed([req[h] EXCEPT !.tmpMode = WiderMode], "write")]
          /\ tmp' = PartialFile
    /\ UNCHANGED <<keychain, keychainAvailable, probeOutcome, fallbackStorage, secretsMetadata, file,
                   nreq, restarts, mode>>

\* getMetadataPath(); fs.writeFileSync(tempPath, data, { mode: 0o600 })
SaveWrite(h) ==
    /\ req[h].pc = "save_write"
    /\ \/ /\ tmp' = req[h].data
          /\ req' = [req EXCEPT ![h].pc = "save_rename", ![h].tmpMode = OwnerOnly]
       \/ \* the path cannot be resolved or the file cannot be created
          /\ req' = [req EXCEPT ![h] = SaveFailed(req[h], "write")]
          /\ UNCHANGED tmp
       \/ \* the write stops part-way: saveMetadata does not unlink tempPath
          /\ req' = [req EXCEPT ![h] = SaveFailed([req[h] EXCEPT !.tmpMode = OwnerOnly], "write")]
          /\ tmp' = PartialFile
    /\ UNCHANGED <<keychain, keychainAvailable, probeOutcome, fallbackStorage, secretsMetadata, file,
                   nreq, restarts, mode>>

\* mutant: an existing target is not replaced
RenameKeepsExisting(target, temp) == IF target.kind = "absent" THEN temp ELSE target

\* fs.renameSync(tempPath, metadataPath): the target is replaced in one step
Rename(target, temp) == temp

\* mutant: a failed rename is logged and the call carries on
SaveRenameSwallowsError(h) ==
    /\ req[h].pc = "save_rename"
    /\ \/ /\ file' = Rename(file, tmp)
          /\ mode' = req[h].tmpMode
          /\ tmp' = AbsentFile
          /\ req' = [req EXCEPT ![h].pc = "save_chmod", ![h].renamed = TRUE,
                                ![h].tmpMode = NoMode]
       \/ /\ req' = [req EXCEPT ![h].pc = "save_chmod"]
          /\ UNCHANGED <<file, tmp, mode>>
    /\ UNCHANGED <<keychain, keychainAvailable, probeOutcome, fallbackStorage, secretsMetadata,
                   nreq, restarts>>

SaveRename(h) ==
    /\ req[h].pc = "save_rename"
    /\ \/ /\ file' = Rename(file, tmp)
          /\ mode' = req[h].tmpMode
          /\ tmp' = AbsentFile
          /\ req' = [req EXCEPT ![h].pc = "save_chmod", ![h].renamed = TRUE,
                                ![h].tmpMode = NoMode]
       \/ \* saveMetadata does not unlink tempPath
          /\ req' = [req EXCEPT ![h] = SaveFailed(req[h], "rename")]
          /\ UNCHANGED <<file, tmp, mode>>
    /\ UNCHANGED <<keychain, keychainAvailable, probeOutcome, fallbackStorage, secretsMetadata,
                   nreq, restarts>>

\* fs.chmodSync(metadataPath, 0o600); on return the handler sends its response
SaveChmod(h) ==
    /\ req[h].pc = "save_chmod"
    /\ \/ /\ mode' = OwnerOnly
          /\ req' = [req EXCEPT ![h] = Done(req[h], SuccessStatus(req[h].op))]
       \/ /\ req' = [req EXCEPT ![h] = SaveFailed(req[h], "chmod")]
          /\ UNCHANGED mode
    /\ UNCHANGED <<keychain, keychainAvailable, probeOutcome, fallbackStorage, secretsMetadata, file,
                   tmp, nreq, restarts>>

\* ------------------------------------------------------ process start
\* the keychain probe: setPassword('__test__'), then deletePassword('__test__')
ProbeOutcomes == {"set_failed", "delete_failed", "ok"}

\* mutant: the keychain is marked available as soon as the sentinel is written
ProbeAvailableAfterSet(outcome) == outcome # "set_failed"

\* keychainAvailable = true is reached only after both awaits of the try block
ProbeAvailable(outcome) == outcome = "ok"

Probe(kc, outcome) ==
    CASE outcome = "ok" -> [kc EXCEPT ![ProbeAccount] = Null]
      [] outcome = "delete_failed" -> [kc EXCEPT ![ProbeAccount] = Str("test")]
      [] OTHER -> kc

InFlight(r) == r.pc \notin {"idle", "done"}

\* both stores agree on which ids exist
Consistent(metadata, kc) ==
    \A id \in Ids : (FindIndex(metadata, id) # 0) <=> (kc[id].t # "null")

\* mutant: the registry is not seeded from the metadata file
RestartStartsEmpty ==
    /\ restarts < MaxRestarts
    /\ restarts' = restarts + 1
    /\ \E outcome \in ProbeOutcomes :
          /\ keychain' = Probe(keychain, outcome)
          /\ probeOutcome' = outcome
          /\ keychainAvailable' = ProbeAvailable(outcome)
    /\ fallbackStorage' = [a \in Ids |-> Undef]
    /\ secretsMetadata' = <<>>
    /\ req' = [h \in Handlers |-> IdleReq]
    /\ tmp' = AbsentFile
    /\ UNCHANGED <<file, nreq, mode>>

\* the process stops (at any point) and is started again
Restart ==
    /\ restarts < MaxRestarts
    /\ restarts' = restarts + 1
    /\ \E outcome \in ProbeOutcomes :
          /\ keychain' = Probe(keychain, outcome)
          /\ probeOutcome' = outcome
          /\ keychainAvailable' = ProbeAvailable(outcome)
    /\ fallbackStorage' = [a \in Ids |-> Undef]
    /\ secretsMetadata' = loadMetadata(file)
    /\ req' = [h \in Handlers |-> IdleReq]
    /\ tmp' = AbsentFile
    /\ UNCHANGED <<file, nreq, mode>>

InitFiles == {AbsentFile, GarbageFile}

Init ==
    /\ \E outcome \in ProbeOutcomes :
          /\ keychain = Probe([a \in Accounts |-> Null], outcome)
          /\ probeOutcome = outcome
          /\ keychainAvailable = ProbeAvailable(outcome)
    /\ fallbackStorage = [a \in Ids |-> Undef]
    /\ file \in InitFiles
    /\ mode = IF file.kind = "absent" THEN NoMode ELSE OwnerOnly
    /\ secretsMetadata = loadMetadata(file)
    /\ tmp = AbsentFile
    /\ req = [h \in Handlers |-> IdleReq]
    /\ nreq = 0
    /\ restarts = 0

Step(h) ==
    \/ \E id \in Ids, b \in CreateBodies : BeginCreate(h, id, b)
    \/ CreatePush(h)
    \/ CreateRollback(h)
    \/ \E id \in Ids, b \in UpdateBodies : BeginUpdate(h, id, b)
    \/ UpdateValue(h)
    \/ UpdateMutate(h)
    \/ UpdateRollback(h)
    \/ \E id \in Ids : BeginDelete(h, id)
    \/ DeleteValue(h)
    \/ DeleteSplice(h)
    \/ DeleteRollback(h)
    \/ KeytarReturn(h)
    \/ SaveWrite(h)
    \/ SaveRename(h)
    \/ SaveChmod(h)

Next ==
    \/ \E h \in Serial : Step(h)
    \/ Restart

Spec == Init /\ [][Next]_vars

\* ------------------------------------------------- GET /api/secrets
\* { ...meta, value: value }
WithValue(meta, value) ==
    [f \in DOMAIN meta \cup {"value"} |-> IF f = "value" THEN value ELSE meta[f]]

\* mutant: the secrets are returned newest first
getAllSecretsNewestFirst(metadata, failed) ==
    LET kept == {i \in 1..Len(metadata) :
                    i \notin failed /\ ~Falsy(StoreValue(metadata[i].id.s))}
        n == Cardinality(kept)
        nth(k) == CHOOSE i \in kept : Cardinality({j \in kept : j > i}) = k - 1
    IN  [k \in 1..n |-> WithValue(metadata[nth(k)], StoreValue(metadata[nth(k)].id.s))]

\* getAllSecrets: one getPassword per entry, Promise.all, filter(Boolean). An
\* entry whose value is missing or empty, or whose getPassword is rejected (the
\* indices in failed), is left out.
getAllSecrets(metadata, failed) ==
    LET kept == {i \in 1..Len(metadata) :
                    i \notin failed /\ ~Falsy(StoreValue(metadata[i].id.s))}
        n == Cardinality(kept)
        nth(k) == CHOOSE i \in kept : Cardinality({j \in kept : j < i}) = k - 1
    IN  [k \in 1..n |-> WithValue(metadata[nth(k)], StoreValue(metadata[nth(k)].id.s))]

\* ------------------------------- metadataStore.js called on its own
\* saveMetadata and loadMetadata called directly on one directory, as the
\* persistence tests do: the caller is handler 1, a call that throws leaves
\* it at "rollback"
StoreEntries ==
    { NewMetadata("a", Body(Str(" T1 "), Str("v1"), Str("password"), Undef, Num(1), Num(1))),
      NewMetadata("b", Body(Str(" T2 "), Str("v2"), Str("note"), Str("n"), Num(2), Num(2))) }

EntrySeqs == UNION {[1..n -> StoreEntries] : n \in 0..MaxLen}

StoreFiles ==
    {AbsentFile, GarbageFile, ObjectFile}
        \cup {Stringify(e) : e \in {s \in EntrySeqs : Len(s) <= 1}}

\* what the caller knows when it makes its next call
StoreCarry(r) ==
    [IdleReq EXCEPT
        !.lastSaved = IF r.op = "save" /\ r.pc = "done" THEN r.entries ELSE r.lastSaved,
        !.savedKnown = IF r.op = "save" /\ r.pc = "done" THEN TRUE
                       ELSE IF r.op = "save" /\ r.renamed THEN FALSE
                       ELSE r.savedKnown]

\* saveMetadata(entries, tempDir)
StoreSave(h, entries) ==
    /\ req[h].pc \in {"idle", "done", "rollback"}
    /\ nreq < MaxCalls
    /\ nreq' = nreq + 1
    /\ tmp' = AbsentFile
    /\ req' = [req EXCEPT ![h] =
          EnterSave([StoreCarry(req[h]) EXCEPT !.op = "save", !.entries = entries], entries)]
    /\ UNCHANGED <<keychain, keychainAvailable, probeOutcome, fallbackStorage, secretsMetadata, file,
                   restarts, mode>>

\* mutant: a file that does not hold an array makes the call throw
StoreLoadThrows(h) ==
    /\ req[h].pc \in {"idle", "done", "rollback"}
    /\ nreq < MaxCalls
    /\ nreq' = nreq + 1
    /\ req' = [req EXCEPT ![h] =
          [StoreCarry(req[h]) EXCEPT !.op = "load", !.old = file,
              !.pc = IF file.kind \in {"array", "absent"} THEN "done" ELSE "rollback",
              !.loaded = loadMetadata(file)]]
    /\ UNCHANGED <<keychain, keychainAvailable, probeOutcome, fallbackStorage, secretsMetadata, file,
                   tmp, restarts, mode>>

\* mutant: a file that does not hold an array is replaced by an empty array
StoreLoadRepairs(h) ==
    /\ req[h].pc \in {"idle", "done", "rollback"}
    /\ nreq < MaxCalls
    /\ nreq' = nreq + 1
    /\ req' = [req EXCEPT ![h] =
          [StoreCarry(req[h]) EXCEPT !.op = "load", !.pc = "done", !.old = file,
                                     !.loaded = loadMetadata(file)]]
    /\ file' = IF file.kind \in {"array", "absent"} THEN file ELSE Stringify(<<>>)
    /\ UNCHANGED <<keychain, keychainAvailable, probeOutcome, fallbackStorage, secretsMetadata,
                   tmp, restarts, mode>>

\* loadMetadata(tempDir): existsSync, readFileSync, JSON.parse, Array.isArray
StoreLoad(h) ==
    /\ req[h].pc \in {"idle", "done", "rollback"}
    /\ nreq < MaxCalls
    /\ nreq' = nreq + 1
    /\ req' = [req EXCEPT ![h] =
          [StoreCarry(req[h]) EXCEPT !.op = "load", !.pc = "done", !.old = file,
                                     !.loaded = loadMetadata(file)]]
    /\ UNCHANGED <<keychain, keychainAvailable, probeOutcome, fallbackStorage, secretsMetadata, file,
                   tmp, restarts, mode>>

StoreInit ==
    /\ keychain = [a \in Accounts |-> Null]
    /\ keychainAvailable = TRUE
    /\ probeOutcome = "ok"
    /\ fallbackStorage = [a \in Ids |-> Undef]
    /\ file \in StoreFiles
    /\ mode \in IF file.kind = "absent" THEN {NoMode} ELSE {OwnerOnly, WiderMode}
    /\ secretsMetadata = <<>>
    /\ tmp = AbsentFile
    /\ req = [h \in Handlers |-> IdleReq]
    /\ nreq = 0
    /\ restarts = 0

StoreNext ==
    \E h \in Serial :
        \/ \E entries \in EntrySeqs : StoreSave(h, entries)
        \/ StoreLoad(h)
        \/ SaveWrite(h)
        \/ SaveRename(h)
        \/ SaveChmod(h)

StoreSpec == StoreInit /\ [][StoreNext]_vars

\* --------------------------------- two requests in flight at once
\* Each of the two handlers serves one request. A handler runs from one await
\* to the next without interruption (Node runs a continuation to completion),
\* and awaits on the in-memory table resolve in the same turn: the other
\* handler gets a turn only while this one waits for keytar.
ConcCreateBodies == {b \in CreateBodies : ~CreateInvalid(b)}
ConcUpdateBodies ==
    {b \in UpdateBodies :
        ~UpdateInvalid(b) /\ (b.value.t = "undefined" \/ ~UpdateValueInvalid(b))}

\* the registry when the two requests arrive: empty, or the two secrets of
\* StoreEntries created earlier
ConcRegistries == {<<>>} \cup {s \in [1..2 -> StoreEntries] : s[1].id = Str("a") /\ s[2].id = Str("b")}

ConcInit ==
    /\ \E outcome \in ProbeOutcomes, registry \in ConcRegistries :
          LET stored(id) == FindIndex(registry, id) # 0 IN
          /\ probeOutcome = outcome
          /\ keychainAvailable = ProbeAvailable(outcome)
          /\ keychain = [a \in Accounts |->
                IF a \in Ids /\ keychainAvailable /\ stored(a)
                THEN Str("v1")
                ELSE Probe([x \in Accounts |-> Null], outcome)[a]]
          /\ fallbackStorage = [a \in Ids |->
                IF ~keychainAvailable /\ stored(a) THEN Str("v1") ELSE Undef]
          /\ secretsMetadata = registry
          /\ file = IF registry = <<>> THEN AbsentFile ELSE Stringify(registry)
    /\ mode = IF file.kind = "absent" THEN NoMode ELSE OwnerOnly
    /\ tmp = AbsentFile
    /\ req = [h \in Handlers |-> IdleReq]
    /\ nreq = 0
    /\ restarts = 0

\* handler h has the turn: no other handler is between two awaits
HasTurn(h) == \A g \in Handlers \ {h} : req[g].pc \in {"idle", "done", "await"}

ConcStep(h) ==
    /\ HasTurn(h)
    /\ \/ /\ req[h].pc = "idle"
          /\ \/ \E id \in Ids, b \in ConcCreateBodies : BeginCreate(h, id, b)
             \/ \E id \in Ids, b \in ConcUpdateBodies : BeginUpdate(h, id, b)
             \/ \E id \in Ids : BeginDelete(h, id)
       \/ CreatePush(h)
       \/ CreateRollback(h)
       \/ UpdateValue(h)
       \/ UpdateMutate(h)
       \/ UpdateRollback(h)
       \/ DeleteValue(h)
       \/ DeleteSplice(h)
       \/ DeleteRollback(h)
       \/ KeytarReturn(h)
       \/ SaveWrite(h)
       \/ SaveRename(h)
       \/ SaveChmod(h)

ConcNext == \E h \in Handlers : ConcStep(h)

ConcSpec == ConcInit /\ [][ConcNext]_vars

\* ------------------------------------------------------------ properties
Completed(r) == r.pc = "done"
Succeeded(r) == r.status \in {200, 201, 204}

\* what storage.getPassword resolved to for the request's id when it arrived
PreStoreValue(r) ==
    IF keychainAvailable THEN r.pre.keychain[r.id] ELSE FallbackGet(r.pre.fallback, r.id)

\* the request changed nothing: registry, metadata file, both value tables
NoSideEffect(r) ==
    /\ secretsMetadata = r.pre.meta
    /\ file = r.pre.file
    /\ keychain = r.pre.keychain
    /\ fallbackStorage = r.pre.fallback
    /\ ~r.saveAttempted

\* C1: after every request that returned success (201, 200, 204), a fresh
\* loadMetadata() equals the in-memory secretsMetadata, element by element.
C1_SuccessLoadEqualsMemory ==
    \A h \in Handlers :
        (Completed(req[h]) /\ Succeeded(req[h])) => loadMetadata(file) = secretsMetadata

\* a second create succeeded; the entries were serialized without their notes
C1_Witness ==
    \E h \in Handlers :
        /\ Completed(req[h]) /\ req[h].status = 201
        /\ Len(secretsMetadata) = 2
        /\ secretsMetadata[2].notes = Undef
        /\ "notes" \notin DOMAIN file.items[2]

\* C2: after every completed request, successful or failed and rolled back
\* (saveMetadata failing at temp write, rename or chmod), the in-memory
\* secretsMetadata equals what a fresh loadMetadata() returns.
C2_CompletedLoadEqualsMemory ==
    \A h \in Handlers : Completed(req[h]) => loadMetadata(file) = secretsMetadata

\* C3 as stated: when saveMetadata fails during a create, on completion the value
\* store holds no entry for the id, secretsMetadata is as before the request, and
\* the request returned an error.
C3_CreateSaveFailureRollsBack ==
    \A h \in Handlers :
        (Completed(req[h]) /\ req[h].op = "create" /\ req[h].saveFailed # "no") =>
            /\ StoreValue(req[h].id) = Null
            /\ secretsMetadata = req[h].pre.meta
            /\ req[h].status = 500

\* C3 amended: when saveMetadata fails during a create, on completion
\* secretsMetadata is as before the request and the request returned 500; the
\* value store holds no entry for the id unless the compensating deletePassword
\* was itself rejected by the keychain.
C3_CreateSaveFailureRollsBackUnlessDeleteFails ==
    \A h \in Handlers :
        (Completed(req[h]) /\ req[h].op = "create" /\ req[h].saveFailed # "no") =>
            /\ ~req[h].rollbackFailed => StoreValue(req[h].id) = Null
            /\ secretsMetadata = req[h].pre.meta
            /\ req[h].status = 500

\* a create into a non-empty registry whose save failed and whose keychain
\* entry was removed again
C3_Witness ==
    \E h \in Handlers :
        /\ Completed(req[h]) /\ req[h].op = "create" /\ req[h].saveFailed = "rename"
        /\ ~req[h].rollbackFailed
        /\ keychainAvailable
        /\ Len(req[h].pre.meta) = 1

\* C4, the case of an id whose value was absent: when saveMetadata fails during
\* an update that supplied a new value, on completion the metadata are as before
\* the request and the value store holds no value for the id, as before.
C4_UpdateSaveFailureRestoresAbsentValue ==
    \A h \in Handlers :
        (/\ Completed(req[h]) /\ req[h].op = "update"
         /\ req[h].body.value.t # "undefined"
         /\ req[h].saveFailed # "no"
         /\ PreStoreValue(req[h]) = Null) =>
            /\ secretsMetadata = req[h].pre.meta
            /\ StoreValue(req[h].id) = Null

\* C5 as stated: when saveMetadata fails during a delete, on completion the
\* sequence equals the one before the request and the value store holds again
\* the value it held for the id.
C5_DeleteSaveFailureRollsBack ==
    \A h \in Handlers :
        (Completed(req[h]) /\ req[h].op = "delete" /\ req[h].saveFailed # "no") =>
            /\ secretsMetadata = req[h].pre.meta
            /\ StoreValue(req[h].id) = PreStoreValue(req[h])

\* C5 amended: when saveMetadata fails during a delete, on completion the
\* sequence equals the one before the request (the entry is back at its index);
\* the value store holds again the value it held for the id unless the
\* compensating setPassword was itself rejected by the keychain.
C5_DeleteSaveFailureRollsBackUnlessSetFails ==
    \A h \in Handlers :
        (Completed(req[h]) /\ req[h].op = "delete" /\ req[h].saveFailed # "no") =>
            /\ secretsMetadata = req[h].pre.meta
            /\ ~req[h].rollbackFailed => StoreValue(req[h].id) = PreStoreValue(req[h])

\* the first of two entries was deleted, the save failed, and the entry and its
\* keychain value were put back
C5_Witness ==
    \E h \in Handlers :
        /\ Completed(req[h]) /\ req[h].op = "delete" /\ req[h].saveFailed # "no"
        /\ ~req[h].rollbackFailed
        /\ keychainAvailable
        /\ req[h].metaIndex = 1 /\ Len(req[h].pre.meta) = 2
        /\ PreStoreValue(req[h]) = Str("v1")

\* C6: with the keychain in use before and after, a crash inside a request that
\* started from consistent stores, followed by a restart, leaves the stores
\* consistent: an id has a metadata entry iff the keychain holds a value for it.
C6_CrashKeepsStoresConsistent ==
    [][(/\ restarts' = restarts + 1
        /\ keychainAvailable /\ keychainAvailable'
        /\ \E h \in Handlers :
              /\ InFlight(req[h])
              /\ loadMetadata(req[h].pre.file) = req[h].pre.meta
              /\ Consistent(req[h].pre.meta, req[h].pre.keychain))
       => Consistent(secretsMetadata', keychain')]_vars

\* C7: at every point of saveMetadata and after it, whether it failed or not,
\* the target holds the complete content it held before the call until the
\* rename, and the complete new serialization from the rename on; it never
\* holds a partial write.
C7_TargetOldOrNew ==
    \A h \in Handlers :
        req[h].saveAttempted =>
            /\ file = (IF req[h].renamed THEN req[h].data ELSE req[h].old)
            /\ file.kind # "partial"

\* a write that stopped part-way: the temporary file is partial, the target
\* still holds the previous array
C7_Witness ==
    \E h \in Handlers :
        /\ req[h].pc = "rollback" /\ req[h].saveFailed = "write"
        /\ tmp.kind = "partial"
        /\ file.kind = "array" /\ file = req[h].old /\ file # req[h].data

\* C8: a create whose id is already in secretsMetadata changes nothing
\* (registry, metadata file, stored value), and is answered 409 when its fields
\* pass validation (400 when they do not).
C8_DuplicateCreateNoSideEffect ==
    \A h \in Handlers :
        (Completed(req[h]) /\ req[h].op = "create"
            /\ FindIndex(req[h].pre.meta, req[h].id) # 0) =>
            /\ NoSideEffect(req[h])
            /\ req[h].status = (IF CreateInvalid(req[h].body) THEN 400 ELSE 409)

\* a valid create for an existing id whose stored value differs from the one
\* in the request
C8_Witness ==
    \E h \in Handlers :
        /\ Completed(req[h]) /\ req[h].op = "create" /\ req[h].status = 409
        /\ req[h].body.value = Str("v1")
        /\ StoreValue(req[h].id) = Str("v2")

\* C9: an update or delete for an id that is not in secretsMetadata is answered
\* 404 and changes nothing (registry, metadata file, value store); so is a
\* delete repeated after it succeeded.
C9_UnknownIdNotFound ==
    \A h \in Handlers :
        (Completed(req[h]) /\ req[h].op \in {"update", "delete"}
            /\ FindIndex(req[h].pre.meta, req[h].id) = 0) =>
            /\ req[h].status = 404
            /\ NoSideEffect(req[h])

\* the delete that just succeeded is repeated
C9_Witness ==
    \E h \in Handlers :
        /\ Completed(req[h]) /\ req[h].op = "delete" /\ req[h].status = 404
        /\ req[h].prevDeleted = req[h].id

\* C10: with the keychain in use, a request whose value-store call is rejected
\* returns an error, never calls saveMetadata, and leaves secretsMetadata and
\* the metadata file unchanged.
C10_StoreFailureSurfaced ==
    \A h \in Handlers :
        (Completed(req[h]) /\ req[h].storeFailed) =>
            /\ keychainAvailable
            /\ req[h].status = 500
            /\ ~req[h].saveAttempted
            /\ secretsMetadata = req[h].pre.meta
            /\ file = req[h].pre.file

\* deletePassword was rejected in a delete
C10_Witness ==
    \E h \in Handlers :
        /\ Completed(req[h]) /\ req[h].storeFailed
        /\ req[h].op = "delete" /\ req[h].next = "d_splice"

\* C11: when saveMetadata fails in create, update or delete and the
\* compensating value-store call of the rollback is rejected too, the request
\* still completes with 500 and secretsMetadata is back to its pre-request value.
C11_RollbackFailureKeepsPrimaryError ==
    \A h \in Handlers :
        (Completed(req[h]) /\ req[h].rollbackFailed) =>
            /\ req[h].saveFailed # "no"
            /\ req[h].status = 500
            /\ secretsMetadata = req[h].pre.meta

\* a delete of the first of two entries: the save failed, then the keychain
\* rejected the setPassword that should have restored the value
C11_Witness ==
    \E h \in Handlers :
        /\ Completed(req[h]) /\ req[h].rollbackFailed
        /\ req[h].op = "delete" /\ req[h].metaIndex = 1 /\ Len(req[h].pre.meta) = 2
        /\ StoreValue(req[h].id) = Null

\* C12: a create or update answered 400 (missing or blank field, wrong type,
\* unknown category, empty or non-string value) changed nothing: the registry,
\* the metadata file and the value store are what they were before the request.
C12_ValidationRejectionNoSideEffect ==
    \A h \in Handlers :
        (Completed(req[h]) /\ req[h].op \in {"create", "update"} /\ req[h].status = 400) =>
            /\ NoSideEffect(req[h])
            /\ tmp = AbsentFile

\* an update of a stored secret rejected for its value, which the handler
\* validates only after it has read the current value from the store
C12_Witness ==
    \E h \in Handlers :
        /\ Completed(req[h]) /\ req[h].op = "update" /\ req[h].status = 400
        /\ req[h].body.value \in {Str(""), Null, Num(7)}
        /\ req[h].secretValue = Str("v1")

\* C13: a successful update leaves id and createdAt of its entry alone, keeps
\* title, category, notes and updatedAt where the body omits them, touches no
\* other entry, and when the body has no value the secret it returns carries
\* the value the store holds.
C13_UpdateChangesOnlyPresentFields ==
    \A h \in Handlers :
        (Completed(req[h]) /\ req[h].op = "update" /\ req[h].status = 200) =>
            LET r == req[h]
                old == r.pre.meta[r.metaIndex]
                new == secretsMetadata[r.metaIndex]
            IN  /\ Len(secretsMetadata) = Len(r.pre.meta)
                /\ \A i \in 1..Len(secretsMetadata) :
                       i # r.metaIndex => secretsMetadata[i] = r.pre.meta[i]
                /\ new.id = old.id
                /\ new.createdAt = old.createdAt
                /\ \A f \in {"title", "category", "notes", "updatedAt"} :
                       r.body[f] = Undef => new[f] = old[f]
                /\ r.metadata = new
                /\ r.body.value = Undef =>
                       /\ r.secretValue = StoreValue(r.id)
                       /\ r.secretValue = PreStoreValue(r)

\* a title-only update of a stored secret has answered 200
C13_Witness ==
    \E h \in Handlers :
        /\ Completed(req[h]) /\ req[h].op = "update" /\ req[h].status = 200
        /\ req[h].body.value = Undef /\ req[h].body.title = Str(" T2 ")
        /\ secretsMetadata[req[h].metaIndex].title = Str("T2")
        /\ secretsMetadata[req[h].metaIndex].category = Str("password")
        /\ req[h].secretValue = Str("v1")

\* C14: a loadMetadata that follows a saveMetadata(entries) which returned
\* gives back a sequence equal to entries, same length and same order, whatever
\* the file held before and however many saves came earlier: it is the
\* sequence of the last save.
C14_RoundTrip ==
    \A h \in Handlers :
        /\ (req[h].op = "save" /\ Completed(req[h])) =>
               /\ loadMetadata(file) = req[h].entries
               /\ Len(loadMetadata(file)) = Len(req[h].entries)
        /\ (req[h].op = "load" /\ Completed(req[h]) /\ req[h].savedKnown) =>
               req[h].loaded = req[h].lastSaved

\* two different sequences were saved one after the other, then loaded: the
\* load has returned the second, which has two entries
C14_Witness ==
    \E h \in Handlers :
        /\ req[h].op = "load" /\ Completed(req[h]) /\ req[h].savedKnown
        /\ req[h].old.kind = "array"
        /\ Len(req[h].loaded) = 2
        /\ req[h].loaded[1].id = Str("b") /\ req[h].loaded[2].id = Str("a")
        /\ nreq = 3

\* C15: loadMetadata returns (it does not throw), and returns the empty
\* sequence, when the file is absent, unparseable or not an array; a
\* saveMetadata that returns after that has replaced the file, so that the next
\* load returns exactly the saved sequence.
C15_LoadNeverFails ==
    \A h \in Handlers :
        /\ (req[h].op = "load" /\ req[h].old.kind # "array") =>
               /\ Completed(req[h])
               /\ req[h].loaded = <<>>
        /\ (req[h].op = "save" /\ Completed(req[h]) /\ req[h].old.kind # "array") =>
               loadMetadata(file) = req[h].entries
        /\ (req[h].op = "load" /\ req[h].savedKnown) =>
               /\ Completed(req[h])
               /\ req[h].loaded = req[h].lastSaved

\* after a first call, a save of one entry over a file that did not parse
\* has returned, and a load would now return that entry
C15_Witness ==
    \E h \in Handlers :
        /\ req[h].op = "save" /\ Completed(req[h])
        /\ req[h].old = GarbageFile
        /\ Len(req[h].entries) = 1 /\ loadMetadata(file) = req[h].entries
        /\ nreq = 2

\* C16: a loadMetadata call leaves the content of the metadata file as it
\* was, whether the file holds an array, other JSON or bytes that do not parse.
C16_LoadKeepsFile ==
    [][\A h \in Handlers :
          (req'[h].op = "load" /\ nreq' = nreq + 1) =>
              /\ file' = file
              /\ tmp' = tmp]_vars

\* a load has returned [] and the file under it still does not parse
C16_Witness ==
    \E h \in Handlers :
        /\ req[h].op = "load" /\ Completed(req[h])
        /\ req[h].old = GarbageFile /\ file = GarbageFile
        /\ req[h].loaded = <<>>

\* C17: saveMetadata returns only when none of its steps failed and the
\* target file holds the serialization of its argument; a failed step
\* (path resolution or temp write, rename, chmod) makes the call throw.
C17_SaveReturnsOnlyWhenWritten ==
    \A h \in Handlers :
        req[h].op = "save" =>
            /\ Completed(req[h]) =>
                   /\ file = Stringify(req[h].entries)
                   /\ req[h].saveFailed = "no"
                   /\ req[h].renamed
            /\ req[h].saveFailed # "no" => req[h].pc = "rollback"

\* a save over an existing array has thrown at its rename: the file is the
\* old one, not the serialization of the argument
C17_Witness ==
    \E h \in Handlers :
        /\ req[h].op = "save" /\ req[h].pc = "rollback" /\ req[h].saveFailed = "rename"
        /\ file.kind = "array" /\ file # Stringify(req[h].entries)
        /\ tmp = Stringify(req[h].entries)

\* C18: no entry of secretsMetadata and no object of the metadata file (or
\* of the temporary file on its way there) has a value property: the value of
\* a secret is in the value store only.
C18_NoValueInMetadata ==
    /\ \A i \in 1..Len(secretsMetadata) : "value" \notin DOMAIN secretsMetadata[i]
    /\ \A i \in 1..Len(file.items) : "value" \notin DOMAIN file.items[i]
    /\ \A i \in 1..Len(tmp.items) : "value" \notin DOMAIN tmp.items[i]
    /\ \A h \in Handlers : "value" \notin DOMAIN req[h].metadata

\* a secret was created and then given a new value: its entry is in memory
\* and in the file, its value in the store
C18_Witness ==
    \E h \in Handlers :
        /\ Completed(req[h]) /\ req[h].op = "update" /\ req[h].status = 200
        /\ req[h].body.value = Str("v2")
        /\ StoreValue(req[h].id) = Str("v2")
        /\ file.kind = "array" /\ Len(file.items) = Len(secretsMetadata)
        /\ file.items[req[h].metaIndex].id = Str(req[h].id)

\* C19: with requests served one at a time from an empty registry, the
\* entries of secretsMetadata have pairwise different ids, also while a request
\* is under way and after one failed and rolled back.
C19_UniqueIds ==
    \A i, j \in 1..Len(secretsMetadata) :
        secretsMetadata[i].id = secretsMetadata[j].id => i = j

\* two secrets are registered; the delete of the first failed at its save
\* and was rolled back
C19_Witness ==
    \E h \in Handlers :
        /\ Completed(req[h]) /\ req[h].op = "delete" /\ req[h].saveFailed # "no"
        /\ Len(secretsMetadata) = 2 /\ req[h].metaIndex = 1
        /\ secretsMetadata[1].id = Str(req[h].id)
        /\ secretsMetadata[2].id # secretsMetadata[1].id

\* C20: between two process starts keychainAvailable keeps the value the
\* probe gave it; when it is false no step touches the keychain or waits for
\* it, when it is true no step touches fallbackStorage, a rejected keychain
\* call included.
C20_StorageModeFixed ==
    [][restarts' = restarts =>
          /\ keychainAvailable' = keychainAvailable
          /\ ~keychainAvailable =>
                 /\ keychain' = keychain
                 /\ \A h \in Handlers : req'[h].pc # "await"
          /\ keychainAvailable => fallbackStorage' = fallbackStorage]_vars

\* the keychain rejected the deletePassword of a delete request, and the
\* store is still the keychain
C20_Witness ==
    \E h \in Handlers :
        /\ Completed(req[h]) /\ req[h].op = "delete" /\ req[h].storeFailed
        /\ keychainAvailable
        /\ \A id \in Ids : fallbackStorage[id] = Undef

\* the ids of a sequence of entries, in order
IdsOf(s) == [i \in 1..Len(s) |-> s[i].id]

\* C21: the secrets of a list come in the order of their entries in
\* secretsMetadata, whichever entries are left out; after a successful update
\* the ids are where they were; after a successful delete the ids are the
\* earlier ones without the deleted id, in the same order.
C21_ListInInsertionOrder ==
    /\ \A failed \in SUBSET (1..Len(secretsMetadata)) :
           LET res == getAllSecrets(secretsMetadata, failed) IN
              \A i, j \in 1..Len(res) :
                  i < j => FindIndex(secretsMetadata, res[i].id.s)
                              < FindIndex(secretsMetadata, res[j].id.s)
    /\ \A h \in Handlers :
           LET r == req[h] IN
              /\ (Completed(r) /\ r.op = "update" /\ r.status = 200) =>
                     IdsOf(secretsMetadata) = IdsOf(r.pre.meta)
              /\ (Completed(r) /\ r.op = "delete" /\ r.status = 204) =>
                     IdsOf(secretsMetadata)
                        = SelectSeq(IdsOf(r.pre.meta), LAMBDA x : x # Str(r.id))

\* the first of two secrets was updated: the list still has it first
C21_Witness ==
    \E h \in Handlers :
        /\ Completed(req[h]) /\ req[h].op = "update" /\ req[h].status = 200
        /\ req[h].metaIndex = 1
        /\ Len(getAllSecrets(secretsMetadata, {})) = 2
        /\ getAllSecrets(secretsMetadata, {})[1].id = Str(req[h].id)

\* C22: when a create has answered 201 the store holds the given value under
\* the id, the new entry is the last element of secretsMetadata, the metadata
\* file holds that entry (last too), and a list now ends with the secret and
\* its value.
C22_CreateSuccessHasAllEffects ==
    \A h \in Handlers :
        (Completed(req[h]) /\ req[h].op = "create" /\ req[h].status = 201) =>
            LET r == req[h]
                n == Len(secretsMetadata)
                res == getAllSecrets(secretsMetadata, {})
            IN  /\ StoreValue(r.id) = r.body.value
                /\ n = Len(r.pre.meta) + 1
                /\ secretsMetadata[n].id = Str(r.id)
                /\ secretsMetadata[n] = r.metadata
                /\ file.kind = "array" /\ Len(file.items) = n
                /\ FromJson(file.items[n]) = r.metadata
                /\ Len(res) >= 1
                /\ res[Len(res)] = WithValue(r.metadata, r.body.value)

\* a second secret was created after a first one
C22_Witness ==
    \E h \in Handlers :
        /\ Completed(req[h]) /\ req[h].op = "create" /\ req[h].status = 201
        /\ Len(secretsMetadata) = 2
        /\ StoreValue(req[h].id) = Str("v1")
        /\ secretsMetadata[1].id # Str(req[h].id)

\* C23: when a delete has answered 204 the store holds no value for the id,
\* neither secretsMetadata nor the metadata file has an entry with the id, and
\* a list does not contain the id.
C23_DeleteSuccessHasAllEffects ==
    \A h \in Handlers :
        (Completed(req[h]) /\ req[h].op = "delete" /\ req[h].status = 204) =>
            LET r == req[h]
                res == getAllSecrets(secretsMetadata, {})
            IN  /\ StoreValue(r.id) = Null
                /\ keychainAvailable => keychain[r.id] = Null
                /\ ~keychainAvailable => fallbackStorage[r.id] = Undef
                /\ \A i \in 1..Len(secretsMetadata) : secretsMetadata[i].id # Str(r.id)
                /\ Len(secretsMetadata) = Len(r.pre.meta) - 1
                /\ file.kind = "array"
                /\ \A i \in 1..Len(file.items) : file.items[i].id # Str(r.id)
                /\ \A i \in 1..Len(res) : res[i].id # Str(r.id)

\* the first of two secrets was deleted; the other one is still listed
C23_Witness ==
    \E h \in Handlers :
        /\ Completed(req[h]) /\ req[h].op = "delete" /\ req[h].status = 204
        /\ req[h].metaIndex = 1 /\ Len(req[h].pre.meta) = 2
        /\ PreStoreValue(req[h]) = Str("v1")
        /\ Len(getAllSecrets(secretsMetadata, {})) = 1

\* the process is restarted while no request is under way and the last
\* request, if any, returned success
RestartAfterSuccess ==
    /\ restarts' = restarts + 1
    /\ \A h \in Handlers :
          \/ req[h].pc = "idle"
          \/ Completed(req[h]) /\ Succeeded(req[h])

\* C24 as stated: a restart after successful requests leaves the result of
\* list as it was, metadata and values.
C24_RestartKeepsList ==
    [][RestartAfterSuccess =>
          getAllSecrets(secretsMetadata, {})' = getAllSecrets(secretsMetadata, {})]_vars

\* C24, amended: the result of list is the same after the restart when the
\* probe succeeded at both starts, so that the values are in the keychain;
\* when the new process runs on its in-memory table the values of the old one
\* are gone, the entries are still loaded and list returns no secret.
C24_RestartKeepsListWithKeychain ==
    [][RestartAfterSuccess =>
          /\ secretsMetadata' = secretsMetadata
          /\ (keychainAvailable /\ keychainAvailable') =>
                 getAllSecrets(secretsMetadata, {})' = getAllSecrets(secretsMetadata, {})
          /\ ~keychainAvailable' => getAllSecrets(secretsMetadata, {})' = <<>>]_vars

\* a process restarted after two creates, the keychain in use: both secrets
\* are listed with their values
C24_Witness ==
    /\ restarts = 1 /\ nreq = 2 /\ keychainAvailable
    /\ \A h \in Handlers : req[h].pc = "idle"
    /\ Len(getAllSecrets(secretsMetadata, {})) = 2
    /\ getAllSecrets(secretsMetadata, {})[2].value = Str("v1")
    /\ file = Stringify(secretsMetadata)

C26_TimestampsNonDecreasing ==
    \A h \in Handlers :
        (Completed(req[h]) /\ req[h].op = "update" /\ req[h].status = 200) =>
            LET old == req[h].pre.meta[req[h].metaIndex]
                new == secretsMetadata[req[h].metaIndex]
            IN  /\ new.updatedAt.n >= old.updatedAt.n
                /\ new.updatedAt.n >= new.createdAt.n

\* C27: the temporary file a saveMetadata call wrote, whole or in part,
\* has mode 0o600 as long as it exists; from the rename on the target, which
\* then holds the new content, has mode 0o600, and so it has when the call
\* returns, also when the target existed before with wider permissions.
C27_OwnerOnlyPermissions ==
    \A h \in Handlers :
        LET r == req[h] IN
            /\ (r.saveAttempted /\ tmp.kind # "absent") => r.tmpMode = OwnerOnly
            /\ (r.saveAttempted /\ r.renamed) => mode = OwnerOnly
            /\ (r.op = "save" /\ Completed(r)) => mode = OwnerOnly

\* a save over a target that group and others could read has returned
C27_Witness ==
    \E h \in Handlers :
        /\ req[h].op = "save" /\ Completed(req[h])
        /\ req[h].oldMode = WiderMode /\ req[h].old.kind = "array"
        /\ mode = OwnerOnly /\ file = Stringify(req[h].entries)

\* C28: once saveMetadata has raised its error the content at the metadata
\* path is what it was when the call was entered, and after the caller's
\* rollback a load of the file equals secretsMetadata.
C28_FailedSaveKeepsTarget ==
    \A h \in Handlers :
        LET r == req[h] IN
            /\ r.saveFailed # "no" => file = r.old
            /\ (Completed(r) /\ r.saveFailed # "no" /\ loadMetadata(r.pre.file) = r.pre.meta) =>
                   loadMetadata(file) = secretsMetadata

\* C29: with two requests interleaving at their awaits, no two entries of
\* secretsMetadata have the same id, and of two creates of the same id at most
\* one is answered 201.
C29_ConcurrentCreatesKeepIdsUnique ==
    /\ \A i, j \in 1..Len(secretsMetadata) :
           secretsMetadata[i].id = secretsMetadata[j].id => i = j
    /\ \A g, h \in Handlers :
           (/\ g # h
            /\ req[g].op = "create" /\ req[h].op = "create" /\ req[g].id = req[h].id
            /\ Completed(req[g]) /\ Completed(req[h])) =>
               ~(req[g].status = 201 /\ req[h].status = 201)

\* C30: with two requests interleaving at their awaits, when an update or a
\* delete of id X is about to use the index it found and X is still
\* registered, that index is still the position of X's entry in secretsMetadata.
C30_IndexStillDesignatesEntry ==
    \A h \in Handlers :
        (/\ req[h].pc \in {"u_mutate", "d_splice"}
         /\ FindIndex(secretsMetadata, req[h].id) # 0) =>
            /\ req[h].metaIndex <= Len(secretsMetadata)
            /\ secretsMetadata[req[h].metaIndex].id = Str(req[h].id)

\* ------------------------------------- the storage object on the fallback
\* The three methods of storage are called directly, in any order, while
\* keychainAvailable is false.  The passwords are those the handlers pass: a
\* validated value, or the null that the revert of an update writes back when
\* the entry had no stored value.
FallbackPasswords == {Str("v1"), Str("v2"), Null}

FallbackCalled(h, name, call, result) ==
    [IdleReq EXCEPT !.pc = "done", !.op = name, !.id = call.account, !.call = call,
                    !.secretValue = result]

\* storage.setPassword(service, account, password): fallbackStorage[account] = password
setPassword(h, account, password) ==
    /\ ~keychainAvailable
    /\ nreq < MaxCalls
    /\ nreq' = nreq + 1
    /\ fallbackStorage' = FallbackApply(fallbackStorage, SetCall(account, password))
    /\ req' = [req EXCEPT ![h] = FallbackCalled(h, "set", SetCall(account, password), Undef)]
    /\ UNCHANGED <<keychain, keychainAvailable, probeOutcome, secretsMetadata, file, tmp,
                   restarts, mode>>

\* storage.getPassword(service, account): return fallbackStorage[account] || null
getPassword(h, account) ==
    /\ ~keychainAvailable
    /\ nreq < MaxCalls
    /\ nreq' = nreq + 1
    /\ fallbackStorage' = FallbackApply(fallbackStorage, GetCall(account))
    /\ req' = [req EXCEPT ![h] = FallbackCalled(h, "get", GetCall(account),
                                                FallbackGet(fallbackStorage, account))]
    /\ UNCHANGED <<keychain, keychainAvailable, probeOutcome, secretsMetadata, file, tmp,
                   restarts, mode>>

\* storage.deletePassword(service, account): delete fallbackStorage[account]; return true
deletePassword(h, account) ==
    /\ ~keychainAvailable
    /\ nreq < MaxCalls
    /\ nreq' = nreq + 1
    /\ fallbackStorage' = FallbackApply(fallbackStorage, DeleteCall(account))
    /\ req' = [req EXCEPT ![h] = FallbackCalled(h, "delete", DeleteCall(account), Undef)]
    /\ UNCHANGED <<keychain, keychainAvailable, probeOutcome, secretsMetadata, file, tmp,
                   restarts, mode>>

\* the process has started and its keychain probe has failed
FallbackInit ==
    /\ \E outcome \in ProbeOutcomes \ {"ok"} :
          /\ probeOutcome = outcome
          /\ keychain = Probe([a \in Accounts |-> Null], outcome)
          /\ keychainAvailable = ProbeAvailable(outcome)
    /\ fallbackStorage = [a \in Ids |-> Undef]
    /\ file = AbsentFile
    /\ mode = NoMode
    /\ secretsMetadata = loadMetadata(file)
    /\ tmp = AbsentFile
    /\ req = [h \in Handlers |-> IdleReq]
    /\ nreq = 0
    /\ restarts = 0

FallbackNext ==
    \E h \in Serial, account \in Ids :
        \/ \E password \in FallbackPasswords : setPassword(h, account, password)
        \/ getPassword(h, account)
        \/ deletePassword(h, account)

FallbackSpec == FallbackInit /\ [][FallbackNext]_vars

\* C31: in every interleaving, while a handler is between its mutation of
\* secretsMetadata and the end of its in-memory revert no other handler is
\* running, and the revert leaves secretsMetadata as it was just before that
\* handler's push, replace or splice.
C31_RollbackUndoesOwnMutation ==
    [][\A h \in Handlers :
          restarts' = restarts =>
          /\ req[h].pc \in {"save_write", "save_rename", "save_chmod", "rollback"} =>
                 \A g \in Handlers \ {h} :
                     /\ req[g].pc \in {"idle", "done", "await"}
                     /\ req'[g] = req[g]
          /\ (req[h].pc = "rollback" /\ req'[h].pc # "rollback") =>
                 secretsMetadata' = req[h].memBefore]_vars

\* C32: whenever no request is in progress, list returns exactly one secret
\* for every entry of secretsMetadata, in the registry's order, in either
\* storage mode and after a restart; so every id that create rejects as a
\* duplicate is visible in list.
C32_ListShowsEveryEntry ==
    (\A h \in Handlers : ~InFlight(req[h])) =>
        IdsOf(getAllSecrets(secretsMetadata, {})) = IdsOf(secretsMetadata)

\* C33: once a call of saveMetadata has returned or thrown, no temporary
\* file that this call created remains next to the metadata file.
C33_NoTempFileRemains ==
    \A h \in Handlers :
        (req[h].saveAttempted /\ req[h].pc \in {"done", "rollback"}) =>
            ~(req[h].tmpMode # NoMode /\ tmp # AbsentFile)

\* C34 (as stated): after the startup probe, whatever its outcome, the
\* sentinel '__test__' is not in the keychain, and the keychain is marked
\* available only if the sentinel's write and delete both completed.
C34_SentinelNeverLeft ==
    /\ keychain[ProbeAccount] = Null
    /\ keychainAvailable => probeOutcome = "ok"

\* C34 (amended): the keychain is marked available exactly when the
\* sentinel's write and delete both completed, and then the sentinel is not
\* in the keychain; a sentinel found in the keychain means a delete failed
\* and the store runs on the in-memory fallback.
C34_AvailableOnlyAfterFullProbe ==
    /\ keychainAvailable <=> probeOutcome = "ok"
    /\ keychainAvailable => keychain[ProbeAccount] = Null
    /\ keychain[ProbeAccount] \in {Null, Str("test")}

\* the probe wrote the sentinel, failed to delete it, and a request was
\* then served from the fallback
C34_Witness ==
    /\ probeOutcome = "delete_failed"
    /\ keychain[ProbeAccount] = Str("test")
    /\ ~keychainAvailable
    /\ \E h \in Handlers : Completed(req[h]) /\ req[h].status = 201

\* C35: while and after an update whose body has no value is served, the
\* value store is as it was when the request arrived, and the only store
\* call the request makes is the read: nothing is written or deleted on the
\* success path or in the revert after a failed save.
C35_UpdateWithoutValueLeavesStore ==
    \A h \in Handlers :
        LET r == req[h] IN
           (r.op = "update" /\ r.body.value.t = "undefined") =>
               /\ keychain = r.pre.keychain
               /\ fallbackStorage = r.pre.fallback
               /\ r.call.kind \in {"none", "get"}

\* a title-only update whose save failed was reverted and answered 500
C35_Witness ==
    \E h \in Handlers :
        LET r == req[h] IN
           /\ Completed(r) /\ r.op = "update" /\ r.body.value.t = "undefined"
           /\ r.status = 500 /\ r.saveFailed # "no" /\ r.inRollback
           /\ secretsMetadata = r.pre.meta

\* C36: a mutating request goes through its steps in the protocol's order:
\* a request refused by its precondition check (400, 404, 409) has touched
\* neither the store, the registry nor the file; a request whose store call
\* failed has neither mutated the registry nor called saveMetadata; when the
\* handler is about to mutate the registry the store already holds the new
\* state and no save has begun; and saveMetadata is entered only after the
\* mutation, with the mutated registry.
C36_StepsInProtocolOrder ==
    \A h \in Handlers :
        LET r == req[h] IN
           /\ (Completed(r) /\ r.status \in {400, 404, 409}) => NoSideEffect(r)
           /\ r.storeFailed =>
                  /\ ~r.saveAttempted
                  /\ secretsMetadata = r.pre.meta
                  /\ file = r.pre.file
           /\ (r.pc = "c_push" \/ (r.pc = "u_mutate" /\ r.body.value.t # "undefined")) =>
                  /\ StoreValue(r.id) = r.body.value
                  /\ secretsMetadata = r.pre.meta /\ ~r.saveAttempted
           /\ r.pc = "d_splice" =>
                  /\ StoreValue(r.id) = Null
                  /\ secretsMetadata = r.pre.meta /\ ~r.saveAttempted
           /\ r.saveAttempted => r.memBefore = r.pre.meta
           /\ r.pc \in {"save_write", "save_rename", "save_chmod"} =>
                  r.data = Stringify(secretsMetadata)

\* the keychain rejected the deletePassword of an existing secret: the
\* request ended with 500, the entry is still registered and nothing was saved
C36_Witness ==
    \E h \in Handlers :
        LET r == req[h] IN
           /\ Completed(r) /\ r.op = "delete" /\ r.storeFailed /\ r.status = 500
           /\ r.deletedValue.t = "string"
           /\ FindIndex(secretsMetadata, r.id) # 0
           /\ keychain[r.id] # Null

\* C37: a failed request is answered with one error category chosen by
\* precedence: an update or delete of an unknown id is answered 404 even if
\* its fields are invalid; a create with invalid fields is answered 400 even
\* if its id exists; 409 is answered exactly for a valid create of an
\* existing id; and a persistence failure (500) is answered only to a
\* request that passed validation and the existence check.
C37_ErrorPrecedence ==
    \A h \in Handlers :
        LET r == req[h]
            known == FindIndex(r.pre.meta, r.id) # 0
        IN  Completed(r) =>
               /\ (r.op \in {"update", "delete"} /\ ~known) => r.status = 404
               /\ (r.op = "create" /\ CreateInvalid(r.body)) => r.status = 400
               /\ r.status = 409 <=>
                      (r.op = "create" /\ ~CreateInvalid(r.body) /\ known)
               /\ r.status = 500 =>
                      CASE r.op = "create" -> ~CreateInvalid(r.body) /\ ~known
                        [] r.op = "update" ->
                              /\ known /\ ~UpdateInvalid(r.body)
                              /\ r.body.value.t = "undefined" \/ ~UpdateValueInvalid(r.body)
                        [] OTHER -> known

WellFormedEntry(e) ==
    /\ e.title.t = "string" /\ e.title.s # "" /\ Trim(e.title.s) = e.title.s
    /\ e.category.t = "string" /\ e.category.s \in VALID_CATEGORIES
    /\ e.notes.t \in {"undefined", "string"}

\* C38: every entry that an accepted create or update has written, to the
\* registry or to the metadata file, has a non-empty title without
\* surrounding whitespace, a category of the fixed set, and notes that are
\* absent or a string.
C38_WrittenEntriesWellFormed ==
    /\ \A i \in 1..Len(secretsMetadata) : WellFormedEntry(secretsMetadata[i])
    /\ file.kind = "array" =>
           \A i \in 1..Len(file.items) : WellFormedEntry(FromJson(file.items[i]))
    /\ \A h \in Handlers :
           LET r == req[h] IN
              (Completed(r) /\ r.status \in {200, 201}) => WellFormedEntry(r.metadata)

\* an update carrying a new category and notes was accepted after a create
\* whose title had surrounding blanks
C38_Witness ==
    \E h \in Handlers :
        LET r == req[h] IN
           /\ Completed(r) /\ r.op = "update" /\ r.status = 200
           /\ r.body.category = Str("note") /\ r.body.notes = Str("n")
           /\ r.metadata.title = Str("T1") /\ r.metadata.category = Str("note")
           /\ file.kind = "array" /\ Len(file.items) = 1

\* C39: on the fallback the value store is a map keyed by account: no
\* account has a value before it is set; after setPassword(account, v) a
\* get of that account returns v, also when an earlier value is overridden;
\* after deletePassword(account) a get of it returns null; getPassword
\* returns what a get returned before it and changes nothing; and no call
\* changes what a get of any other account returns.
C39_FallbackIsMap ==
    /\ \A a \in Ids : FallbackGet(fallbackStorage, a) = Null
    /\ [][\A h \in Serial :
             nreq' = nreq + 1 =>
                LET c == req'[h].call IN
                   /\ c.kind = "set" =>
                          FallbackGet(fallbackStorage', c.account) = c.password
                   /\ c.kind = "delete" =>
                          FallbackGet(fallbackStorage', c.account) = Null
                   /\ c.kind = "get" =>
                          /\ req'[h].secretValue = FallbackGet(fallbackStorage', c.account)
                          /\ fallbackStorage' = fallbackStorage
                   /\ \A b \in Ids \ {c.account} :
                          FallbackGet(fallbackStorage', b) = FallbackGet(fallbackStorage, b)]_vars

\* after a and b were set and a was deleted, a get of a returned null and b
\* still has its value
C39_Witness ==
    \E h \in Serial :
        /\ ~keychainAvailable /\ nreq = MaxCalls
        /\ req[h].op = "get" /\ req[h].call = GetCall("a")
        /\ req[h].secretValue = Null
        /\ fallbackStorage["a"] = Undef
        /\ fallbackStorage["b"] = Str("v1")

====
